---- MODULE Spec2Model ----
(***************************************************************************)
(* Authentication and session trust of petites-annonces-ci-pro:           *)
(* AuthService (register, login, refreshTokens, logout, verifyEmail,      *)
(* requestPasswordReset, resetPassword), the AuthController handlers that  *)
(* wrap it, and the authenticateToken middleware with its revocation set   *)
(* and user cache.                                                         *)
(*                                                                         *)
(* Time is counted in minutes.  Strings the code inspects (emails, phone   *)
(* numbers, names, passwords) are sequences of one-character strings;      *)
(* error messages are sequences of words, accents dropped.                 *)
(***************************************************************************)
EXTENDS Integers, Sequences, FiniteSets, TLC

VARIABLES
    users,          \* table "users": id -> row (lastLoginAt, which nothing reads, left out)
    refreshTokens,  \* table "refresh_tokens": set of rows
    issued,         \* every token generateToken has signed (held by clients)
    nextJti,        \* source of fresh jwtid values (crypto.randomUUID)
    nextId,         \* source of fresh row ids (cuid)
    revokedTokens,  \* in-process Set<string> of the middleware
    userCache,      \* in-process Map<userId, {user, timestamp}>
    now,            \* wall clock, minutes
    nodeEnv,        \* process.env.NODE_ENV
    recentHashes,   \* in-process Map<contentHash, {timestamp, count}> of detectDuplicateContent
    accepted,       \* per content hash: how many submissions passed, and the instant of the latest
    calls,          \* service calls suspended at an await, when requests overlap
    revocations,    \* what authenticateToken has revoked and why, kept for the record
    last            \* outcome of the last request, as its caller observes it

vars == <<users, refreshTokens, issued, nextJti, nextId, revokedTokens, userCache, now, nodeEnv, recentHashes, accepted,
          calls, revocations, last>>

----------------------------------------------------------------------------
(* Bounds of the model *)

MaxNow == 30
MaxTokens == 4
MaxUsers == 4
MaxAttempts == 7
MaxSlugTries == 3
MaxCalls == 3
MaxOverlap == 2
MaxSubmissions == 4
SubmissionGap == 5

(* JWT_CONFIG and SECURITY_CONFIG, durations in minutes *)

ACCESS_TOKEN_EXPIRES == 15
REFRESH_TOKEN_EXPIRES == 10080
REMEMBER_ME_EXPIRES == 43200
VERIFICATION_TOKEN_EXPIRES == 1440
RESET_TOKEN_EXPIRES == 60
MAX_LOGIN_ATTEMPTS == 5
LOCKOUT_TIME == 15
PASSWORD_MIN_LENGTH == 6
PASSWORD_MAX_LENGTH == 128
CACHE_DURATION == 5

SECRET == "jwt-secret"
REFRESH_SECRET == "refresh-secret"
ISSUER == "petites-annonces-ci"
AUDIENCE == "petites-annonces-ci-users"
ALGORITHM == "HS256"

UserStatus == {"ACTIVE", "SUSPENDED", "DELETED", "PENDING_VERIFICATION"}

NULL == -1

----------------------------------------------------------------------------
(* Strings *)

LowerOf(c) ==
    CASE c = "A" -> "a"
      [] c = "B" -> "b"
      [] c = "S" -> "s"
      [] OTHER -> c

toLowerCase(s) == [i \in DOMAIN s |-> LowerOf(s[i])]

RECURSIVE StripSpaces(_)
StripSpaces(s) ==
    IF s = <<>> THEN <<>>
    ELSE IF Head(s) = " " THEN StripSpaces(Tail(s))
    ELSE <<Head(s)>> \o StripSpaces(Tail(s))

RECURSIVE TrimLeft(_)
TrimLeft(s) == IF s # <<>> /\ Head(s) = " " THEN TrimLeft(Tail(s)) ELSE s

RECURSIVE TrimRight(_)
TrimRight(s) ==
    IF s # <<>> /\ s[Len(s)] = " " THEN TrimRight(SubSeq(s, 1, Len(s) - 1)) ELSE s

trim(s) == TrimRight(TrimLeft(s))

startsWith(s, p) == Len(s) >= Len(p) /\ SubSeq(s, 1, Len(p)) = p

substring(s, n) == SubSeq(s, n + 1, Len(s))

contains(s, p) ==
    \E i \in 0..(Len(s) - Len(p)) : SubSeq(s, i + 1, i + Len(p)) = p

includes(msg, word) == \E i \in DOMAIN msg : msg[i] = word

LowerChars == {"a", "b", "c", "e", "r", "s", "t"}
UpperChars == {"A", "B", "S"}
DigitChars == {"0", "1", "2", "5", "7"}

----------------------------------------------------------------------------
(* Inputs the requests are drawn from *)

EmailA == <<"a", "@", "b", ".", "c">>
EmailAUpper == <<"A", "@", "b", ".", "c">>
EmailB == <<"b", "@", "b", ".", "c">>
EmailC == <<"c", "@", "b", ".", "c">>
EmailBad == <<"a", "b">>

PhoneLocal1 == <<"0", "7", "0", "0", "0", "0", "0", "0", "0", "1">>
PhoneLocal2 == <<"0", "5", "0", "0", "0", "0", "0", "0", "0", "2">>
PhoneLocal3 == <<"0", "1", "0", "0", "0", "0", "0", "0", "0", "5">>
PhoneIntl1 == <<"0", "0", "2", "2", "5">> \o PhoneLocal1
PhoneBad == <<"0", "7">>

NameAb == <<"A", "b">>
Nameab == <<"a", "b">>
NameBa == <<"B", "a">>
NameShort == <<"a">>

PwSecret1 == <<"S", "e", "c", "r", "e", "t", "1">>
PwSecret2 == <<"S", "e", "c", "r", "e", "t", "2">>
PwLower == <<"s", "e", "c", "r", "e", "t", "7">>
PwShort == <<"a", "b", "c">>
PwLong == [i \in 1..(PASSWORD_MAX_LENGTH + 1) |-> "a"]

----------------------------------------------------------------------------
(* bcrypt: the hash is not the password; compare succeeds exactly on the
   password the hash was made from (the salt is abstracted away) *)

bcryptHash(password) == [bcrypt |-> password]

bcryptCompare(password, hash) == hash = bcryptHash(password)

----------------------------------------------------------------------------
(* AuthService private helpers *)

emailRegexTest(s) ==
    /\ \A i \in DOMAIN s : s[i] # " "
    /\ Cardinality({i \in DOMAIN s : s[i] = "@"}) = 1
    /\ LET at == CHOOSE i \in DOMAIN s : s[i] = "@"
       IN  /\ at > 1
           /\ \E j \in (at + 2)..(Len(s) - 1) : s[j] = "."

AllDigits(s) == \A i \in DOMAIN s : s[i] \in {"0", "1", "2", "3", "4", "5", "6", "7", "8", "9"}

phoneRegexTest(s) ==
    \E prefix \in {<<>>, <<"+", "2", "2", "5">>, <<"0", "0", "2", "2", "5">>, <<"2", "2", "5">>} :
        /\ startsWith(s, prefix)
        /\ LET rest == substring(s, Len(prefix))
           IN  Len(rest) >= 8 /\ Len(rest) <= 10 /\ AllDigits(rest)

\* "ok" or the message of the Error validatePassword throws
validatePassword(password) ==
    IF Len(password) < PASSWORD_MIN_LENGTH THEN <<"Mot", "de", "passe", "trop", "court">>
    ELSE IF Len(password) > PASSWORD_MAX_LENGTH THEN <<"Mot", "de", "passe", "trop", "long">>
    ELSE IF nodeEnv = "production" /\ ~\E i \in DOMAIN password : password[i] \in LowerChars
        THEN <<"Le", "mot", "de", "passe", "doit", "contenir", "au", "moins", "une", "minuscule">>
    ELSE IF nodeEnv = "production" /\ ~\E i \in DOMAIN password : password[i] \in UpperChars
        THEN <<"Le", "mot", "de", "passe", "doit", "contenir", "au", "moins", "une", "majuscule">>
    ELSE IF nodeEnv = "production" /\ ~\E i \in DOMAIN password : password[i] \in DigitChars
        THEN <<"Le", "mot", "de", "passe", "doit", "contenir", "au", "moins", "un", "chiffre">>
    ELSE <<"ok">>

validateRegistrationData(data) ==
    IF ~emailRegexTest(data.email) THEN <<"Format", "d'email", "invalide">>
    ELSE IF ~phoneRegexTest(data.phone) THEN <<"Numero", "de", "telephone", "ivoirien", "invalide">>
    ELSE IF validatePassword(data.password) # <<"ok">> THEN validatePassword(data.password)
    ELSE IF Len(data.firstName) < 2 \/ Len(data.lastName) < 2
        THEN <<"Nom", "et", "prenom", "doivent", "contenir", "au", "moins", "2", "caracteres">>
    ELSE <<"ok">>

normalizePhoneNumber(phone) ==
    LET normalized == StripSpaces(phone)
    IN  IF startsWith(normalized, <<"0", "0", "2", "2", "5">>)
            THEN <<"+", "2", "2", "5">> \o substring(normalized, 5)
        ELSE IF startsWith(normalized, <<"2", "2", "5">>)
            THEN <<"+", "2", "2", "5">> \o substring(normalized, 3)
        ELSE IF ~startsWith(normalized, <<"+", "2", "2", "5">>)
            THEN <<"+", "2", "2", "5">> \o normalized
        ELSE normalized

\* prisma.user.findFirst with OR: the ids of the rows that match
findUserByEmailOrPhone(email, phone) ==
    {id \in DOMAIN users :
        \/ users[id].email = trim(toLowerCase(email))
        \/ users[id].phone = normalizePhoneNumber(phone)}

\* jwt.sign with the payload {userId, email, type} and the options of generateToken
generateToken(userId, email, type, expiresIn, jti) ==
    [userId |-> userId, email |-> email, type |-> type,
     iat |-> now, exp |-> now + expiresIn, jti |-> jti,
     secret |-> IF type = "refresh" THEN REFRESH_SECRET ELSE SECRET,
     iss |-> ISSUER, aud |-> AUDIENCE, alg |-> "HS256"]

\* jwt.verify: "ok", "expired" (TokenExpiredError) or "invalid" (JsonWebTokenError);
\* algorithm and signature are checked before exp, exp before audience and issuer
jwtVerify(token, secret, algorithms, checkClaims) ==
    IF token.alg \notin algorithms THEN "invalid"
    ELSE IF token.secret # secret THEN "invalid"
    ELSE IF now >= token.exp THEN "expired"
    ELSE IF checkClaims /\ token.aud # AUDIENCE THEN "invalid"
    ELSE IF checkClaims /\ token.iss # ISSUER THEN "invalid"
    ELSE "ok"

DefaultAlgorithms == {"HS256", "HS384", "HS512"}

\* mutant: the purpose of a token is not looked at
anyType(payload, expected) == FALSE

\* payload.type !== expected
wrongType(payload, expected) == payload.type # expected

NoToken ==
    [userId |-> 0, email |-> <<>>, type |-> "none", iat |-> 0, exp |-> 0, jti |-> 0,
     secret |-> "none", iss |-> "none", aud |-> "none", alg |-> "none"]

\* what generateTokenPair signs and stores
PairAccess(userId, email) ==
    generateToken(userId, email, "access", ACCESS_TOKEN_EXPIRES, nextJti)

PairRefresh(userId, email, rememberMe) ==
    generateToken(userId, email, "refresh",
                  IF rememberMe THEN REMEMBER_ME_EXPIRES ELSE REFRESH_TOKEN_EXPIRES,
                  nextJti + 1)

PairRow(userId, email, rememberMe) ==
    [token |-> PairRefresh(userId, email, rememberMe), userId |-> userId,
     expiresAt |-> now + (IF rememberMe THEN REMEMBER_ME_EXPIRES ELSE REFRESH_TOKEN_EXPIRES)]

NoPair == [accessToken |-> NoToken, refreshToken |-> NoToken, expiresIn |-> 0]

AuthTokens(userId, email, rememberMe) ==
    [accessToken |-> PairAccess(userId, email),
     refreshToken |-> PairRefresh(userId, email, rememberMe),
     expiresIn |-> IF rememberMe THEN REMEMBER_ME_EXPIRES ELSE REFRESH_TOKEN_EXPIRES]

\* the state change of generateTokenPair: two tokens signed, one row created
generateTokenPair(userId, email, rememberMe) ==
    /\ issued' = issued \cup {PairAccess(userId, email), PairRefresh(userId, email, rememberMe)}
    /\ refreshTokens' = refreshTokens \cup {PairRow(userId, email, rememberMe)}
    /\ nextJti' = nextJti + 2

CanIssue(n) == nextJti + n - 1 <= MaxTokens


----------------------------------------------------------------------------
(* What the caller of a request observes *)

NoUser == [id |-> 0]

NoBody == [firstName |-> <<>>, lastName |-> <<>>, email |-> <<>>, phone |-> <<>>, password |-> <<>>]

NoOutcome ==
    [op |-> "none", ok |-> FALSE, http |-> 0, msg |-> <<>>, code |-> "none",
     uid |-> 0, tok |-> NoToken, tokens |-> NoPair, user |-> NoUser,
     compared |-> FALSE, next |-> FALSE,
     password |-> <<>>, scheme |-> "none", allDevices |-> FALSE,
     body |-> NoBody, identifier |-> <<>>, detail |-> <<>>, contentHash |-> ""]

Failure(op, http, msg, code) ==
    [NoOutcome EXCEPT !.op = op, !.http = http, !.msg = msg, !.code = code]

Success(op, http, msg) ==
    [NoOutcome EXCEPT !.op = op, !.ok = TRUE, !.http = http, !.msg = msg, !.code = "OK"]

msgInvalidData == <<"Donnees", "invalides">>
msgZodInvalid == <<"Donnees", "de", "validation", "Zod", "invalides">>

\* a row without the columns named
Omit(row, columns) == [f \in (DOMAIN row) \ columns |-> row[f]]

\* a row restricted to the columns of a Prisma select
Select(row, columns) == [f \in columns \cap DOMAIN row |-> row[f]]

----------------------------------------------------------------------------
(* Account guard *)

\* mutant: a lockout that is not compared with the clock never bites
checkAccountLockoutNever(userId) == FALSE

\* TRUE when checkAccountLockout throws
checkAccountLockout(userId) ==
    /\ userId \in DOMAIN users
    /\ users[userId].blockedUntil # NULL
    /\ users[userId].blockedUntil > now

lockoutMessage(userId) ==
    <<"Compte", "temporairement", "bloque", ".", "Reessayez", "dans",
      ToString(users[userId].blockedUntil - now), "minutes", ".">>

\* mutant: the threshold is compared with > instead of >=
handleFailedLoginLate(userId) ==
    LET attempts == users[userId].loginAttempts + 1
    IN  IF attempts > MAX_LOGIN_ATTEMPTS
        THEN [users EXCEPT ![userId].loginAttempts = attempts,
                           ![userId].blockedUntil = now + LOCKOUT_TIME]
        ELSE [users EXCEPT ![userId].loginAttempts = attempts]

\* the users table after handleFailedLogin
handleFailedLogin(userId) ==
    LET attempts == users[userId].loginAttempts + 1
    IN  IF attempts >= MAX_LOGIN_ATTEMPTS
        THEN [users EXCEPT ![userId].loginAttempts = attempts,
                           ![userId].blockedUntil = now + LOCKOUT_TIME]
        ELSE [users EXCEPT ![userId].loginAttempts = attempts]

\* mutant: the counter is reset, the lockout is left
resetLoginAttemptsOnly(userId) == [users EXCEPT ![userId].loginAttempts = 0]

\* mutant: the lockout is cleared, the counter is left
resetLockoutOnly(userId) == [users EXCEPT ![userId].blockedUntil = NULL]

\* the users table after resetLoginAttempts
resetLoginAttempts(userId) ==
    [users EXCEPT ![userId].loginAttempts = 0, ![userId].blockedUntil = NULL]

----------------------------------------------------------------------------
(* POST /login: AuthController.login around AuthService.login *)

msgIncorrect == <<"Email/telephone", "ou", "mot", "de", "passe", "incorrect">>

\* mutant: an unknown identifier is answered in its own words
msgNoSuchAccount == <<"Aucun", "compte", "avec", "cet", "identifiant">>

\* the message for an identifier that matches no identity
msgNotFound == <<"Email/telephone", "ou", "mot", "de", "passe", "incorrect">>
msgSuspended == <<"Votre", "compte", "est", "suspendu", ".", "Contactez", "le", "support", ".">>
msgDeleted == <<"Ce", "compte", "n'existe", "plus", ".">>

\* mutant: every login failure is answered 401
loginStatusCodeFlat(errorMessage) == 401

\* the status the catch block of AuthController.login derives from the message
loginStatusCode(errorMessage) ==
    IF includes(errorMessage, "incorrect") \/ includes(errorMessage, "invalide") THEN 401
    ELSE IF includes(errorMessage, "suspendu") \/ includes(errorMessage, "bloque") THEN 403
    ELSE 400

LoginFailure(data, msg) ==
    [Failure("login", loginStatusCode(msg), msg, "LOGIN_ERROR") EXCEPT
        !.password = data.password, !.identifier = data.identifier]

DbUnchanged == UNCHANGED <<users, refreshTokens, issued, nextJti, nextId>>
MemUnchanged == UNCHANGED <<revokedTokens, userCache>>

\* AuthService.login from the lockout check on, for the row findFirst returned
LoginFound(id, data) ==
    LET user == users[id]
    IN  IF checkAccountLockout(id) THEN
            /\ last' = [LoginFailure(data, lockoutMessage(id)) EXCEPT !.uid = id]
            /\ DbUnchanged
        ELSE IF ~bcryptCompare(data.password, user.password) THEN
            /\ user.loginAttempts < MaxAttempts
            /\ users' = handleFailedLogin(id)
            /\ last' = [LoginFailure(data, msgIncorrect) EXCEPT !.uid = id, !.compared = TRUE]
            /\ UNCHANGED <<refreshTokens, issued, nextJti, nextId>>
        ELSE IF user.status = "SUSPENDED" THEN
            /\ last' = [LoginFailure(data, msgSuspended) EXCEPT !.uid = id, !.compared = TRUE]
            /\ DbUnchanged
        ELSE IF user.status = "DELETED" THEN
            /\ last' = [LoginFailure(data, msgDeleted) EXCEPT !.uid = id, !.compared = TRUE]
            /\ DbUnchanged
        ELSE
            /\ CanIssue(2)
            /\ users' = resetLoginAttempts(id)
            /\ generateTokenPair(id, user.email, data.rememberMe)
            /\ UNCHANGED nextId
            /\ last' = [Success("login", 200, <<"Connexion", "reussie">>) EXCEPT
                            !.uid = id, !.compared = TRUE, !.password = data.password,
                            !.identifier = data.identifier,
                            !.tokens = AuthTokens(id, user.email, data.rememberMe),
                            !.user = Omit(user, {"password"})]

Login(data) ==
    /\ IF data.identifier = <<>> \/ data.password = <<>> THEN
            /\ last' = [Failure("login", 400, <<"Donnees", "de", "connexion", "invalides">>,
                                "LOGIN_VALIDATION_ERROR") EXCEPT !.identifier = data.identifier]
            /\ DbUnchanged
       ELSE IF findUserByEmailOrPhone(data.identifier, data.identifier) = {} THEN
            /\ last' = LoginFailure(data, msgNotFound)
            /\ DbUnchanged
       ELSE \E id \in findUserByEmailOrPhone(data.identifier, data.identifier) :
                LoginFound(id, data)
    /\ MemUnchanged
    /\ UNCHANGED <<now, nodeEnv, recentHashes, accepted, calls, revocations>>

\* requests aimed at identity 1 (by email or by phone) or at nobody
GuardRequests ==
    [identifier : {EmailA, PhoneLocal1, EmailC}, password : {PwSecret1, PwSecret2, <<>>},
     rememberMe : {FALSE}]

----------------------------------------------------------------------------
(* Environment: the clock, and the administrative actor that changes a status *)

Tick(d) ==
    /\ now + d <= MaxNow
    /\ now' = now + d
    /\ UNCHANGED <<users, refreshTokens, issued, nextJti, nextId, revokedTokens, userCache, nodeEnv, recentHashes, accepted, calls, revocations, last>>

AdminSetStatus(id, status) ==
    /\ id \in DOMAIN users
    /\ users[id].status # status
    /\ users' = [users EXCEPT ![id].status = status]
    /\ UNCHANGED <<refreshTokens, issued, nextJti, nextId, revokedTokens, userCache, now, nodeEnv, recentHashes, accepted, calls, revocations, last>>

----------------------------------------------------------------------------
(* authenticateToken: the middleware in front of every protected route *)

NoHeader == [scheme |-> "none", token |-> NoToken]

BearerHeader(token) == [scheme |-> "Bearer", token |-> token]

\* the columns of the select of authenticateToken
CacheColumns == {"email", "phone", "firstName", "status", "emailVerified"}

UserSnapshot(id) == [f \in CacheColumns \cup {"id"} |-> IF f = "id" THEN id ELSE users[id][f]]

Deny(http, code, revoked, cache) ==
    [next |-> FALSE, http |-> http, code |-> code, revoked |-> revoked, cache |-> cache,
     user |-> NoUser]

WithoutKey(map, key) == [k \in (DOMAIN map) \ {key} |-> map[k]]

WithKey(map, key, value) == [k \in (DOMAIN map) \cup {key} |-> IF k = key THEN value ELSE map[k]]

\* mutant: the status check looks for deleted accounts only
checkUserDataNoSuspension(token, userData, cache) ==
    LET user == userData.user
        payload == token
    IN  IF user.status = "DELETED" THEN
            Deny(403, "ACCOUNT_DELETED", revokedTokens \cup {token}, WithoutKey(cache, payload.userId))
        ELSE IF user.email # payload.email THEN
            Deny(401, "TOKEN_MISMATCH", revokedTokens \cup {token}, WithoutKey(cache, payload.userId))
        ELSE
            [next |-> TRUE, http |-> 0, code |-> "OK", revoked |-> revokedTokens,
             cache |-> cache, user |-> user]

\* mutant: a deleted account is refused, its token and cache entry left alone
checkUserDataNoRevocation(token, userData, cache) ==
    LET user == userData.user
        payload == token
    IN  IF user.status = "SUSPENDED" THEN
            Deny(403, "ACCOUNT_SUSPENDED", revokedTokens, cache)
        ELSE IF user.status = "DELETED" THEN
            Deny(403, "ACCOUNT_DELETED", revokedTokens, cache)
        ELSE IF user.email # payload.email THEN
            Deny(401, "TOKEN_MISMATCH", revokedTokens \cup {token}, WithoutKey(cache, payload.userId))
        ELSE
            [next |-> TRUE, http |-> 0, code |-> "OK", revoked |-> revokedTokens,
             cache |-> cache, user |-> user]

\* the middleware from the status checks on, for the entry in hand
checkUserData(token, userData, cache) ==
    LET user == userData.user
        payload == token
    IN  IF user.status = "SUSPENDED" THEN
            Deny(403, "ACCOUNT_SUSPENDED", revokedTokens, cache)
        ELSE IF user.status = "DELETED" THEN
            Deny(403, "ACCOUNT_DELETED", revokedTokens \cup {token}, WithoutKey(cache, payload.userId))
        ELSE IF user.email # payload.email THEN
            Deny(401, "TOKEN_MISMATCH", revokedTokens \cup {token}, WithoutKey(cache, payload.userId))
        ELSE
            [next |-> TRUE, http |-> 0, code |-> "OK", revoked |-> revokedTokens,
             cache |-> cache, user |-> user]

\* mutant: an entry is used however old it is
needsReloadWhenAbsent(userId) == userId \notin DOMAIN userCache

\* the test of authenticateToken on the entry it got from userCache
needsReload(userId) ==
    \/ userId \notin DOMAIN userCache
    \/ (now - userCache[userId].timestamp) > CACHE_DURATION

\* the decision of authenticateToken for a request header; dbUp: the store answers
authenticateToken(header, dbUp) ==
    LET token == IF header.scheme = "Bearer" THEN header.token ELSE NoToken
        payload == token
        stale == needsReload(payload.userId)
    IN  IF token = NoToken THEN
            Deny(401, "MISSING_TOKEN", revokedTokens, userCache)
        ELSE IF token \in revokedTokens THEN
            Deny(401, "REVOKED_TOKEN", revokedTokens, userCache)
        ELSE IF jwtVerify(token, SECRET, {ALGORITHM}, TRUE) = "expired" THEN
            Deny(401, "EXPIRED_TOKEN", revokedTokens, userCache)
        ELSE IF jwtVerify(token, SECRET, {ALGORITHM}, TRUE) # "ok" THEN
            Deny(401, "MALFORMED_TOKEN", revokedTokens, userCache)
        ELSE IF wrongType(payload, "access") THEN
            Deny(401, "WRONG_TOKEN_TYPE", revokedTokens, userCache)
        ELSE IF stale THEN
            IF ~dbUp THEN
                Deny(500, "DB_ERROR", revokedTokens, userCache)
            ELSE IF payload.userId \notin DOMAIN users THEN
                Deny(401, "USER_NOT_FOUND", revokedTokens \cup {token},
                     WithoutKey(userCache, payload.userId))
            ELSE
                checkUserData(token,
                    [user |-> UserSnapshot(payload.userId), timestamp |-> now],
                    WithKey(userCache, payload.userId,
                            [user |-> UserSnapshot(payload.userId), timestamp |-> now]))
        ELSE
            checkUserData(token, userCache[payload.userId], userCache)

\* the tokens a decision of authenticateToken adds to revokedTokens, with the code
Revoked(auth) == {[token |-> t, code |-> auth.code] : t \in auth.revoked \ revokedTokens}

AuthFailure(op, auth, header) ==
    [Failure(op, auth.http, <<>>, auth.code) EXCEPT !.tok = header.token, !.scheme = header.scheme]

\* any protected route whose handler changes nothing here (GET /me)
Authenticate(header, dbUp) ==
    LET auth == authenticateToken(header, dbUp)
    IN  /\ revokedTokens' = auth.revoked
        /\ userCache' = auth.cache
        /\ IF auth.next THEN
                /\ users' = users
                /\ last' = [Success("protected", 200, <<>>) EXCEPT
                                !.next = TRUE, !.uid = auth.user.id, !.tok = header.token,
                                !.scheme = header.scheme, !.user = auth.user]
           ELSE
                /\ users' = users
                /\ last' = AuthFailure("protected", auth, header)
        /\ revocations' = revocations \cup Revoked(auth)
        /\ UNCHANGED <<refreshTokens, issued, nextJti, nextId, now, nodeEnv, recentHashes, accepted, calls>>

\* optionalAuth in front of a route that also serves anonymous callers: without
\* a bearer token it calls next(); with one it runs authenticateToken, whose
\* callback runs only when authenticateToken itself calls next()
OptionalAuth(header, dbUp) ==
    LET token == IF header.scheme = "Bearer" THEN header.token ELSE NoToken
        auth == authenticateToken(header, dbUp)
    IN  IF token = NoToken THEN
            /\ last' = [Success("optional", 200, <<>>) EXCEPT
                            !.next = TRUE, !.scheme = header.scheme]
            /\ UNCHANGED <<users, refreshTokens, issued, nextJti, nextId, revokedTokens,
                           userCache, now, nodeEnv, recentHashes, accepted, calls, revocations>>
        ELSE
            /\ revokedTokens' = auth.revoked
            /\ userCache' = auth.cache
            /\ revocations' = revocations \cup Revoked(auth)
            /\ last' = IF auth.next
                       THEN [Success("optional", 200, <<>>) EXCEPT
                                !.next = TRUE, !.uid = auth.user.id, !.tok = header.token,
                                !.scheme = header.scheme, !.user = auth.user]
                       ELSE AuthFailure("optional", auth, header)
            /\ UNCHANGED <<users, refreshTokens, issued, nextJti, nextId, now, nodeEnv, recentHashes, accepted, calls>>

\* tokens a client can present: the ones signed here, and ones made elsewhere
Tampered(token) ==
    {[token EXCEPT !.secret = "attacker"], [token EXCEPT !.iss = "other"],
     [token EXCEPT !.aud = "other"], [token EXCEPT !.alg = "HS512"]}

\* hard deletion of a row by the administrative actor; refresh_tokens cascade
AdminDeleteUser(id) ==
    /\ id \in DOMAIN users
    /\ users' = WithoutKey(users, id)
    /\ refreshTokens' = {r \in refreshTokens : r.userId # id}
    /\ UNCHANGED <<issued, nextJti, nextId, revokedTokens, userCache, now, nodeEnv, recentHashes, accepted, calls, revocations, last>>

\* the administrative actor changes an email
AdminSetEmail(id, email) ==
    /\ id \in DOMAIN users
    /\ users[id].email # email
    /\ \A other \in DOMAIN users : users[other].email # email
    /\ users' = [users EXCEPT ![id].email = email]
    /\ UNCHANGED <<refreshTokens, issued, nextJti, nextId, revokedTokens, userCache, now, nodeEnv, recentHashes, accepted, calls, revocations, last>>

\* the administrative actor of the lifecycle: it suspends, reinstates or deletes
\* an account, and a deleted account stays deleted
AdminModerate(id, status) ==
    /\ id \in DOMAIN users
    /\ users[id].status # "DELETED"
    /\ AdminSetStatus(id, status)

\* cleanupRevokedTokens; overLimit: the set holds more than 10000 tokens, most of
\* them revoked for sessions not followed here
cleanupRevokedTokens(overLimit) == IF overLimit THEN {} ELSE revokedTokens

\* the hourly maintenance task
Maintenance(overLimit) ==
    /\ nodeEnv # "test"
    /\ revokedTokens' = cleanupRevokedTokens(overLimit)
    /\ userCache' = [id \in {k \in DOMAIN userCache :
                                ~((now - userCache[k].timestamp) > CACHE_DURATION * 2)}
                        |-> userCache[id]]
    /\ (revokedTokens' # revokedTokens \/ userCache' # userCache)
    /\ UNCHANGED <<users, refreshTokens, issued, nextJti, nextId, now, nodeEnv, recentHashes, accepted, calls,
                   revocations, last>>

----------------------------------------------------------------------------
(* POST /refresh: AuthController.refreshTokens around AuthService.refreshTokens *)

RefreshFailure(token) ==
    [Failure("refresh", 401, <<"Token", "de", "rafraichissement", "invalide">>,
             "INVALID_REFRESH_TOKEN") EXCEPT !.tok = token]

\* the row prisma.refreshToken.findUnique({ where: { token } }) returns, as a set
findRefreshToken(token) == {r \in refreshTokens : r.token = token}

\* mutant: the old row is never deleted
rotateKeepingOldRow(tokenRecord, newRow) == refreshTokens \cup {newRow}

\* the refresh_tokens table once the new row is created and the old one deleted
rotateRefreshToken(tokenRecord, newRow) == (refreshTokens \cup {newRow}) \ {tokenRecord}

RefreshTokens(refreshToken) ==
    /\ IF refreshToken = NoToken THEN
            /\ last' = Failure("refresh", 401, <<"Refresh", "token", "manquant">>,
                               "MISSING_REFRESH_TOKEN")
            /\ DbUnchanged
       ELSE IF jwtVerify(refreshToken, REFRESH_SECRET, DefaultAlgorithms, FALSE) # "ok" THEN
            /\ last' = RefreshFailure(refreshToken)
            /\ DbUnchanged
       ELSE IF wrongType(refreshToken, "refresh") THEN
            /\ last' = RefreshFailure(refreshToken)
            /\ DbUnchanged
       ELSE IF \/ findRefreshToken(refreshToken) = {}
               \/ \E r \in findRefreshToken(refreshToken) : r.expiresAt < now THEN
            /\ last' = RefreshFailure(refreshToken)
            /\ DbUnchanged
       ELSE \E tokenRecord \in findRefreshToken(refreshToken) :
            LET email == users[tokenRecord.userId].email
            IN  /\ CanIssue(2)
                /\ issued' = issued \cup {PairAccess(tokenRecord.userId, email),
                                          PairRefresh(tokenRecord.userId, email, FALSE)}
                /\ refreshTokens' =
                        rotateRefreshToken(tokenRecord, PairRow(tokenRecord.userId, email, FALSE))
                /\ nextJti' = nextJti + 2
                /\ UNCHANGED <<users, nextId>>
                /\ last' = [Success("refresh", 200, <<"Tokens", "rafraichis", "avec", "succes">>)
                                EXCEPT !.tok = refreshToken, !.uid = tokenRecord.userId,
                                       !.tokens = AuthTokens(tokenRecord.userId, email, FALSE)]
    /\ MemUnchanged
    /\ UNCHANGED <<now, nodeEnv, recentHashes, accepted, calls, revocations>>

----------------------------------------------------------------------------
(* POST /logout: authenticateToken, AuthController.logout, AuthService.logout *)

\* the refresh_tokens table after deleteMany({ where: { userId } })
deleteUserTokens(userId) == {r \in refreshTokens : r.userId # userId}

\* the refresh_tokens table after AuthService.logout(userId, refreshToken)
\* mutant: the row of the presented token is deleted whoever owns it
logoutByToken(userId, refreshToken) ==
    IF refreshToken # NoToken
    THEN {r \in refreshTokens : r.token # refreshToken}
    ELSE deleteUserTokens(userId)

logout(userId, refreshToken) ==
    IF refreshToken # NoToken
    THEN {r \in refreshTokens : ~(r.userId = userId /\ r.token = refreshToken)}
    ELSE deleteUserTokens(userId)

\* body.allDevices is part of the request; refreshToken is cookie or body
Logout(header, refreshToken, allDevices, dbUp) ==
    LET auth == authenticateToken(header, dbUp)
    IN  /\ revokedTokens' = auth.revoked
        /\ userCache' = auth.cache
        /\ IF auth.next THEN
                /\ users' = users
                /\ refreshTokens' = logout(auth.user.id, refreshToken)
                /\ last' = [Success("logout", 200, <<"Deconnexion", "reussie">>) EXCEPT
                                !.next = TRUE, !.uid = auth.user.id, !.tok = refreshToken,
                                !.allDevices = allDevices]
           ELSE
                /\ UNCHANGED <<users, refreshTokens>>
                /\ last' = [AuthFailure("logout", auth, header) EXCEPT
                                !.allDevices = allDevices]
        /\ revocations' = revocations \cup Revoked(auth)
        /\ UNCHANGED <<issued, nextJti, nextId, now, nodeEnv, recentHashes, accepted, calls>>

----------------------------------------------------------------------------
(* GET /verify/:token: AuthController.verifyEmail around AuthService.verifyEmail *)

VerifyFailure(token) ==
    [Failure("verifyEmail", 400, <<"Token", "de", "verification", "invalide", "ou", "expire">>,
             "EMAIL_VERIFICATION_ERROR") EXCEPT !.tok = token]

VerifyEmail(token) ==
    /\ IF token = NoToken THEN
            /\ last' = Failure("verifyEmail", 400, <<"Token", "de", "verification", "manquant">>,
                               "MISSING_TOKEN")
            /\ users' = users
       ELSE IF jwtVerify(token, SECRET, DefaultAlgorithms, FALSE) # "ok" THEN
            /\ last' = VerifyFailure(token)
            /\ users' = users
       ELSE IF wrongType(token, "verification") THEN
            /\ last' = VerifyFailure(token)
            /\ users' = users
       ELSE IF token.userId \notin DOMAIN users THEN
            /\ last' = VerifyFailure(token)
            /\ users' = users
       ELSE
            /\ users' = [users EXCEPT ![token.userId].emailVerified = TRUE,
                                      ![token.userId].status = "ACTIVE"]
            /\ last' = [Success("verifyEmail", 200, <<"Email", "verifie", "avec", "succes">>)
                            EXCEPT !.tok = token, !.uid = token.userId]
    /\ UNCHANGED <<refreshTokens, issued, nextJti, nextId, revokedTokens, userCache, now, nodeEnv, recentHashes, accepted, calls, revocations>>

----------------------------------------------------------------------------
(* POST /forgot-password and POST /reset-password *)

\* prisma.user.findUnique({ where: { email } }), as a set of ids
findUserByEmail(email) == {id \in DOMAIN users : users[id].email = trim(toLowerCase(email))}

msgResetRequested ==
    <<"Si", "un", "compte", "existe", "avec", "cet", "email", ",", "un", "lien", "de",
      "reinitialisation", "a", "ete", "envoye", ".">>

\* mutant: the answer tells whether the email is known
resetRequestOutcomeRevealing(found) ==
    IF found THEN Success("requestPasswordReset", 200, msgResetRequested)
    ELSE Failure("requestPasswordReset", 404, <<"Aucun", "compte", "avec", "cet", "email">>,
                 "USER_NOT_FOUND")

\* the response of AuthController.requestPasswordReset once the service has returned
resetRequestOutcome(found) == Success("requestPasswordReset", 200, msgResetRequested)

RequestPasswordReset(email) ==
    /\ IF ~emailRegexTest(toLowerCase(trim(email))) THEN
            /\ UNCHANGED <<issued, nextJti>>
            /\ last' = [Failure("requestPasswordReset", 400, msgInvalidData, "VALIDATION_ERROR")
                            EXCEPT !.identifier = email]
       ELSE IF findUserByEmail(email) = {} THEN
            /\ UNCHANGED <<issued, nextJti>>
            /\ last' = [resetRequestOutcome(FALSE) EXCEPT !.identifier = email]
       ELSE \E id \in findUserByEmail(email) :
            /\ CanIssue(1)
            /\ issued' = issued \cup
                    {generateToken(id, users[id].email, "reset", RESET_TOKEN_EXPIRES, nextJti)}
            /\ nextJti' = nextJti + 1
            /\ last' = [resetRequestOutcome(TRUE) EXCEPT !.identifier = email]
    /\ UNCHANGED <<users, refreshTokens, nextId, revokedTokens, userCache, now, nodeEnv, recentHashes, accepted, calls, revocations>>

ResetFailure(token) ==
    [Failure("resetPassword", 400, <<"Token", "invalide", "ou", "mot", "de", "passe", "non", "conforme">>,
             "PASSWORD_RESET_ERROR")
        EXCEPT !.tok = token,
               !.detail = <<"Token", "de", "reinitialisation", "invalide", "ou", "expire">>]

\* mutant: the password is replaced, the account guard is left as it is
updatePasswordOnly(userId, newPassword) ==
    [users EXCEPT ![userId].password = bcryptHash(newPassword)]

\* the users table after the update of resetPassword
updatePassword(userId, newPassword) ==
    [users EXCEPT ![userId].password = bcryptHash(newPassword),
                  ![userId].loginAttempts = 0,
                  ![userId].blockedUntil = NULL]

ResetPassword(token, newPassword) ==
    /\ IF jwtVerify(token, SECRET, DefaultAlgorithms, FALSE) # "ok" THEN
            /\ last' = ResetFailure(token)
            /\ UNCHANGED <<users, refreshTokens>>
       ELSE IF wrongType(token, "reset") THEN
            /\ last' = ResetFailure(token)
            /\ UNCHANGED <<users, refreshTokens>>
       ELSE IF validatePassword(newPassword) # <<"ok">> THEN
            /\ last' = ResetFailure(token)
            /\ UNCHANGED <<users, refreshTokens>>
       ELSE IF token.userId \notin DOMAIN users THEN
            /\ last' = ResetFailure(token)
            /\ UNCHANGED <<users, refreshTokens>>
       ELSE
            /\ users' = updatePassword(token.userId, newPassword)
            /\ refreshTokens' = deleteUserTokens(token.userId)
            /\ last' = [Success("resetPassword", 200,
                                <<"Mot", "de", "passe", "reinitialise", "avec", "succes">>)
                            EXCEPT !.tok = token, !.uid = token.userId, !.password = newPassword]
    /\ UNCHANGED <<issued, nextJti, nextId, revokedTokens, userCache, now, nodeEnv, recentHashes, accepted, calls, revocations>>


----------------------------------------------------------------------------
(* POST /register: AuthController.register around AuthService.register *)

SlugChars == LowerChars \cup DigitChars \cup {"-"}

\* s.replace(/[^a-z0-9-]/g, '')
RECURSIVE KeepSlugChars(_)
KeepSlugChars(s) ==
    IF s = <<>> THEN <<>>
    ELSE IF Head(s) \in SlugChars THEN <<Head(s)>> \o KeepSlugChars(Tail(s))
    ELSE KeepSlugChars(Tail(s))

\* s.split('-')[0]
RECURSIVE splitHead(_)
splitHead(s) ==
    IF s = <<>> \/ Head(s) = "-" THEN <<>> ELSE <<Head(s)>> \o splitHead(Tail(s))

slugExists(slug) ==
    Cardinality({id \in DOMAIN users : contains(users[id].firstName, splitHead(slug))}) > 0

\* the while loop of generateUniqueSlug: <<"ok", slug>>, or <<"diverges">> when it
\* is still running after MaxSlugTries rounds
RECURSIVE slugLoop(_, _, _)
slugLoop(baseSlug, slug, counter) ==
    IF ~slugExists(slug) THEN <<"ok", slug>>
    ELSE IF counter > MaxSlugTries THEN <<"diverges">>
    ELSE slugLoop(baseSlug, baseSlug \o <<"-", ToString(counter)>>, counter + 1)

generateUniqueSlug(firstName, lastName) ==
    LET baseSlug == KeepSlugChars(toLowerCase(firstName) \o <<"-">> \o toLowerCase(lastName))
    IN  slugLoop(baseSlug, baseSlug, 1)

\* mutant: the route hands the body on as it came
keepBody(body) == body

\* the sanitizers of validateRegister: trim on the names, the email and the phone,
\* toLowerCase on the email (normalizeEmail changes nothing more for these domains)
sanitizeRegister(body) ==
    [body EXCEPT !.firstName = trim(@), !.lastName = trim(@),
                 !.email = toLowerCase(trim(@)), !.phone = trim(@)]

NameChars == LowerChars \cup UpperChars \cup {" ", "-", "'"}

nameIsValid(name) ==
    /\ Len(name) >= 2 /\ Len(name) <= 50
    /\ \A i \in DOMAIN name : name[i] \in NameChars

passwordIsValid(password) ==
    /\ Len(password) >= 6 /\ Len(password) <= 128
    /\ \E i \in DOMAIN password : password[i] \in LowerChars
    /\ \E i \in DOMAIN password : password[i] \in UpperChars
    /\ \E i \in DOMAIN password : password[i] \in DigitChars

\* validationResult(req).isEmpty() after the chains of validateRegister
validateRegister(data) ==
    /\ nameIsValid(data.firstName) /\ nameIsValid(data.lastName)
    /\ emailRegexTest(data.email)
    /\ phoneRegexTest(data.phone)
    /\ passwordIsValid(data.password)

\* userSchema.safeParse(req.body).success
userSchemaSafeParse(data) ==
    /\ Len(data.firstName) >= 2 /\ Len(data.firstName) <= 50
    /\ Len(data.lastName) >= 2 /\ Len(data.lastName) <= 50
    /\ emailRegexTest(data.email)
    /\ phoneRegexTest(data.phone)
    /\ Len(data.password) >= 6 /\ Len(data.password) <= 128

msgEmailExists == <<"Un", "compte", "avec", "cet", "email", "existe", "deja">>
msgPhoneExists == <<"Un", "compte", "avec", "ce", "numero", "existe", "deja">>

\* the status the catch block of AuthController.register derives from the message
registerStatusCode(errorMessage) ==
    IF contains(errorMessage, <<"existe", "deja">>) THEN 409 ELSE 400

RegisterFailure(msg) == Failure("register", registerStatusCode(msg), msg, "REGISTRATION_ERROR")

\* the columns of the select of prisma.user.create in register
RegisterColumns == {"email", "phone", "firstName", "emailVerified", "status"}

\* the row prisma.user.create writes
createUser(data) ==
    [email |-> trim(toLowerCase(data.email)),
     phone |-> normalizePhoneNumber(data.phone),
     firstName |-> trim(data.firstName),
     password |-> bcryptHash(data.password),
     status |-> "PENDING_VERIFICATION",
     emailVerified |-> FALSE,
     loginAttempts |-> 0, blockedUntil |-> NULL]

\* the tokens register signs: the session pair of generateTokenPair
registerTokens(userId, email) == {PairAccess(userId, email), PairRefresh(userId, email, FALSE)}

\* mutant: a users table without its unique indexes
noUniqueIndex(row) == FALSE

\* users_email_key or users_phone_key refuses the row
uniqueViolation(row) ==
    \E id \in DOMAIN users : users[id].email = row.email \/ users[id].phone = row.phone

msgUniqueConstraint == <<"Unique", "constraint", "failed", "on", "the", "fields">>

\* register from prisma.user.create on: the row, then the session pair
CreateAccount(body, data) ==
    IF uniqueViolation(createUser(data)) THEN
        /\ last' = [RegisterFailure(msgUniqueConstraint) EXCEPT !.body = body]
        /\ DbUnchanged
    ELSE
        /\ nextId <= MaxUsers
        /\ CanIssue(2)
        /\ users' = WithKey(users, nextId, createUser(data))
        /\ nextId' = nextId + 1
        /\ issued' = issued \cup registerTokens(nextId, createUser(data).email)
        /\ refreshTokens' = refreshTokens \cup {PairRow(nextId, createUser(data).email, FALSE)}
        /\ nextJti' = nextJti + 2
        /\ last' = [Success("register", 201, <<"Inscription", "reussie">>) EXCEPT
                        !.uid = nextId,
                        !.tokens = AuthTokens(nextId, createUser(data).email, FALSE),
                        !.user = [id |-> nextId] @@ Select(createUser(data), RegisterColumns),
                        !.body = body]

Register(body) ==
    LET data == sanitizeRegister(body)
        Refused(outcome) == [outcome EXCEPT !.body = body]
    IN
    /\ IF ~validateRegister(data) THEN
            /\ last' = Refused(Failure("register", 400, msgInvalidData, "VALIDATION_ERROR"))
            /\ DbUnchanged
       ELSE IF ~userSchemaSafeParse(data) THEN
            /\ last' = Refused(Failure("register", 400, msgZodInvalid, "ZOD_VALIDATION_ERROR"))
            /\ DbUnchanged
       ELSE IF validateRegistrationData(data) # <<"ok">> THEN
            /\ last' = Refused(RegisterFailure(validateRegistrationData(data)))
            /\ DbUnchanged
       ELSE IF findUserByEmailOrPhone(data.email, data.phone) # {} THEN
            \E existingUser \in findUserByEmailOrPhone(data.email, data.phone) :
                /\ last' = [RegisterFailure(IF users[existingUser].email = data.email
                                            THEN msgEmailExists ELSE msgPhoneExists)
                                EXCEPT !.uid = existingUser, !.body = body]
                /\ DbUnchanged
       ELSE IF generateUniqueSlug(data.firstName, data.lastName)[1] = "diverges" THEN
            \* the request never returns
            /\ last' = Refused(Failure("register", 0, <<>>, "NO_RESPONSE"))
            /\ DbUnchanged
       ELSE
            CreateAccount(body, data)
    /\ MemUnchanged
    /\ UNCHANGED <<now, nodeEnv, recentHashes, accepted, calls, revocations>>

\* ids for the calls that may be suspended at the same time
FreeCallIds == (1..MaxCalls) \ {c.cid : c \in calls}

\* the body gets past the validations, the existence check and the slug loop
PassesExistenceCheck(body) ==
    LET data == sanitizeRegister(body)
    IN  /\ validateRegister(data)
        /\ userSchemaSafeParse(data)
        /\ validateRegistrationData(data) = <<"ok">>
        /\ findUserByEmailOrPhone(data.email, data.phone) = {}
        /\ generateUniqueSlug(data.firstName, data.lastName)[1] # "diverges"

\* POST /register up to the awaits between findUserByEmailOrPhone and
\* prisma.user.create, where another request can run
RegisterCheck(body) ==
    IF PassesExistenceCheck(body) THEN
        /\ \E cid \in FreeCallIds :
                calls' = calls \cup {[op |-> "register", cid |-> cid, body |-> body]}
        /\ UNCHANGED <<users, refreshTokens, issued, nextJti, nextId, revokedTokens, userCache,
                       now, nodeEnv, recentHashes, accepted, revocations, last>>
    ELSE
        Register(body)

\* the rest of a suspended register call
RegisterCreate(call) ==
    /\ call \in calls /\ call.op = "register"
    /\ calls' = calls \ {call}
    /\ CreateAccount(call.body, sanitizeRegister(call.body))
    /\ MemUnchanged
    /\ UNCHANGED <<now, nodeEnv, recentHashes, accepted, revocations>>

\* a valid body for an unused email and phone, and the bodies one field away from it
NewAccountBody ==
    [firstName |-> NameBa, lastName |-> NameBa, email |-> EmailC, phone |-> PhoneLocal3,
     password |-> PwSecret1]

RegisterRequests ==
    {[NewAccountBody EXCEPT !.firstName = n] : n \in {NameAb, NameBa, NameShort}}
        \cup {[NewAccountBody EXCEPT !.email = e] : e \in {EmailA, EmailAUpper, EmailC, EmailBad}}
        \cup {[NewAccountBody EXCEPT !.phone = p] : p \in {PhoneLocal1, PhoneIntl1, PhoneLocal3, PhoneBad}}
        \cup {[NewAccountBody EXCEPT !.password = w] : w \in {PwSecret1, PwLower, PwShort, PwLong}}
        \cup {[NewAccountBody EXCEPT !.email = EmailA, !.phone = PhoneLocal2]}


----------------------------------------------------------------------------
(* Initial state: a store with two registered identities, nothing in memory *)

\* detectDuplicateContent: the window in minutes and the number of repeats let through
WINDOW_TIME == 15
MAX_DUPLICATES == 3

\* req.contentHash of a POST body that passed validation; NoHash when it is unset
ContentHashes == {"h1", "h2"}
NoHash == ""

UserRow(email, phone, firstName, password, status) ==
    [email |-> email, phone |-> phone, firstName |-> firstName,
     password |-> bcryptHash(password), status |-> status, emailVerified |-> FALSE,
     loginAttempts |-> 0, blockedUntil |-> NULL]

Init ==
    /\ users = (1 :> UserRow(EmailA, normalizePhoneNumber(PhoneLocal1), NameAb, PwSecret1, "ACTIVE"))
             @@ (2 :> UserRow(EmailB, normalizePhoneNumber(PhoneLocal2), Nameab, PwSecret2,
                              "PENDING_VERIFICATION"))
    /\ refreshTokens = {}
    /\ issued = {}
    /\ nextJti = 1
    /\ nextId = 3
    /\ revokedTokens = {}
    /\ userCache = <<>>
    /\ now = 0
    /\ nodeEnv \in {"production", "development"}
    /\ calls = {}
    /\ revocations = {}
    /\ recentHashes = <<>>
    /\ accepted = [hash \in ContentHashes |-> [count |-> 0, latest |-> NULL]]
    /\ last = NoOutcome

----------------------------------------------------------------------------
(* AuthService.login one await at a time, for login calls that overlap *)

\* the update handleFailedLogin writes for the counter value it computed
failedLoginUpdate(userId, attempts) ==
    IF attempts >= MAX_LOGIN_ATTEMPTS
    THEN [users EXCEPT ![userId].loginAttempts = attempts,
                       ![userId].blockedUntil = now + LOCKOUT_TIME]
    ELSE [users EXCEPT ![userId].loginAttempts = attempts]

PendingLogin(cid, pc, data, id, user, attempts, msg) ==
    [op |-> "login", cid |-> cid, pc |-> pc, data |-> data, uid |-> id, user |-> user,
     attempts |-> attempts, msg |-> msg]

\* the id given to a new call
FirstFree == CHOOSE cid \in FreeCallIds : \A other \in FreeCallIds : cid <= other

CallUnchanged ==
    UNCHANGED <<refreshTokens, issued, nextJti, nextId, revokedTokens, userCache, now,
                nodeEnv, recentHashes, accepted, revocations>>

\* findUserByEmailOrPhone, checkAccountLockout, bcrypt.compare and the status
\* checks: reads of a row that no call here changes in between, taken together.
\* The call goes on to count a failure, to answer a refusal or to reset the
\* guard; a request that matches nobody or is not valid is answered at once
LoginFind(data) ==
    IF data.identifier # <<>> /\ data.password # <<>>
            /\ findUserByEmailOrPhone(data.identifier, data.identifier) # {} THEN
        /\ FreeCallIds # {}
        /\ \E id \in findUserByEmailOrPhone(data.identifier, data.identifier) :
            LET user == users[id]
            IN  calls' = calls \cup
                    {IF checkAccountLockout(id) THEN
                         PendingLogin(FirstFree, "answer", data, id, NoUser, 0, lockoutMessage(id))
                     ELSE IF ~bcryptCompare(data.password, user.password) THEN
                         PendingLogin(FirstFree, "count", data, id, NoUser, 0, <<>>)
                     ELSE IF user.status = "SUSPENDED" THEN
                         PendingLogin(FirstFree, "answer", data, id, NoUser, 0, msgSuspended)
                     ELSE IF user.status = "DELETED" THEN
                         PendingLogin(FirstFree, "answer", data, id, NoUser, 0, msgDeleted)
                     ELSE PendingLogin(FirstFree, "reset", data, id, user, 0, <<>>)}
        /\ UNCHANGED <<users, last>>
        /\ CallUnchanged
    ELSE Login(data)

\* handleFailedLogin: findUnique, attempts computed from the counter it read
LoginCount(call) ==
    /\ call \in calls /\ call.op = "login" /\ call.pc = "count"
    /\ users[call.uid].loginAttempts < MaxAttempts
    /\ calls' = (calls \ {call}) \cup
            {[call EXCEPT !.pc = "write", !.attempts = users[call.uid].loginAttempts + 1]}
    /\ UNCHANGED <<users, last>>
    /\ CallUnchanged

\* handleFailedLogin: update; login then throws the message for bad credentials
LoginWrite(call) ==
    /\ call \in calls /\ call.op = "login" /\ call.pc = "write"
    /\ users' = failedLoginUpdate(call.uid, call.attempts)
    /\ calls' = (calls \ {call}) \cup {[call EXCEPT !.pc = "answer", !.msg = msgIncorrect]}
    /\ UNCHANGED last
    /\ CallUnchanged

\* resetLoginAttempts, generateTokenPair and the 200 of the controller
LoginReset(call) ==
    /\ call \in calls /\ call.op = "login" /\ call.pc = "reset"
    /\ CanIssue(2)
    /\ users' = resetLoginAttempts(call.uid)
    /\ generateTokenPair(call.uid, call.user.email, call.data.rememberMe)
    /\ calls' = calls \ {call}
    /\ last' = [Success("login", 200, <<"Connexion", "reussie">>) EXCEPT
                    !.uid = call.uid, !.compared = TRUE, !.password = call.data.password,
                    !.identifier = call.data.identifier,
                    !.tokens = AuthTokens(call.uid, call.user.email, call.data.rememberMe),
                    !.user = Omit(call.user, {"password"})]
    /\ UNCHANGED <<nextId, revokedTokens, userCache, now, nodeEnv, recentHashes, accepted, revocations>>

\* the catch block of AuthController.login answers the caller
LoginAnswer(call) ==
    /\ call \in calls /\ call.op = "login" /\ call.pc = "answer"
    /\ calls' = calls \ {call}
    /\ last' = [LoginFailure(call.data, call.msg) EXCEPT
                    !.uid = call.uid, !.compared = ~contains(call.msg, <<"temporairement", "bloque">>)]
    /\ UNCHANGED users
    /\ CallUnchanged

----------------------------------------------------------------------------
(* Specifications.  Each is the handlers of one part of the service, run one
   request at a time from the same initial store. *)

\* the account guard: logins aimed at identity 1, password resets, the clock
PasswordResetRequests == {EmailA, EmailC}
NewPasswords == {PwSecret2, PwShort}

NextGuard ==
    \/ \E data \in GuardRequests : Login(data)
    \/ \E email \in PasswordResetRequests : RequestPasswordReset(email)
    \/ \E token \in issued, newPassword \in NewPasswords : ResetPassword(token, newPassword)
    \/ Tick(LOCKOUT_TIME)

SpecGuard == Init /\ [][NextGuard]_vars

\* sessions: logins with the right password on both identities, refresh, logout
SessionRequests ==
    {[identifier |-> EmailA, password |-> PwSecret1, rememberMe |-> FALSE],
     [identifier |-> EmailA, password |-> PwSecret1, rememberMe |-> TRUE],
     [identifier |-> EmailB, password |-> PwSecret2, rememberMe |-> FALSE]}

OfType(type) == {t \in issued : t.type = type}

SessionHeaders == {NoHeader} \cup {BearerHeader(t) : t \in OfType("access")}

NextSession ==
    \/ \E data \in SessionRequests : Login(data)
    \/ \E token \in issued \cup {NoToken} : RefreshTokens(token)
    \/ \E header \in SessionHeaders, token \in OfType("refresh") \cup {NoToken},
           allDevices \in BOOLEAN :
            Logout(header, token, allDevices, TRUE)
    \/ Tick(ACCESS_TOKEN_EXPIRES)

Spec == Init /\ [][NextSession]_vars


\* the middleware, with an administrative actor changing the account behind a session
AuthRequests ==
    {[identifier |-> EmailA, password |-> PwSecret1, rememberMe |-> FALSE]}

AuthHeaders ==
    {NoHeader} \cup {BearerHeader(t) : t \in issued \cup UNION {Tampered(t) : t \in OfType("access")}}
               \cup {[scheme |-> "Basic", token |-> t] : t \in OfType("access")}

NextAuth ==
    \/ \E data \in AuthRequests : Login(data)
    \/ \E header \in AuthHeaders, dbUp \in BOOLEAN : Authenticate(header, dbUp)
    \/ \E status \in UserStatus : AdminSetStatus(1, status)
    \/ AdminSetEmail(1, EmailC)
    \/ AdminDeleteUser(1)
    \/ Tick(ACCESS_TOKEN_EXPIRES)

SpecAuth == Init /\ [][NextAuth]_vars

\* every consumer of a token, offered every token the service can sign
VerificationTokens ==
    {generateToken(id, users[id].email, "verification", VERIFICATION_TOKEN_EXPIRES, 0) :
        id \in DOMAIN users}

PurposeTokens == issued \cup VerificationTokens

NextTokens ==
    \/ \E data \in AuthRequests : Login(data)
    \/ RequestPasswordReset(EmailA)
    \/ \E token \in PurposeTokens : Authenticate(BearerHeader(token), TRUE)
    \/ \E token \in PurposeTokens : RefreshTokens(token)
    \/ \E token \in PurposeTokens : VerifyEmail(token)
    \/ \E token \in PurposeTokens : ResetPassword(token, PwSecret2)
    \/ Tick(2 * ACCESS_TOKEN_EXPIRES)

SpecTokens == Init /\ [][NextTokens]_vars

\* registration, and what a new account can do next
NewAccountRequests ==
    {[identifier |-> EmailC, password |-> PwSecret1, rememberMe |-> FALSE]}

NextRegister ==
    \/ \E data \in RegisterRequests : Register(data)
    \/ \E data \in NewAccountRequests : Login(data)
    \/ \E token \in PurposeTokens : VerifyEmail(token)
    \/ Tick(ACCESS_TOKEN_EXPIRES)

SpecRegister == Init /\ [][NextRegister]_vars

\* registrations that overlap: the existence check of one runs before the insert of another
EmailD == <<"d", "@", "b", ".", "c">>
PhoneLocal4 == <<"0", "1", "0", "0", "0", "0", "0", "0", "0", "7">>
PhoneIntl3 == <<"2", "2", "5">> \o PhoneLocal3

OverlappingRequests ==
    {NewAccountBody,
     [NewAccountBody EXCEPT !.phone = PhoneLocal4],
     [NewAccountBody EXCEPT !.email = EmailD, !.phone = PhoneIntl3],
     [NewAccountBody EXCEPT !.email = EmailAUpper]}

NextOverlap ==
    \/ \E body \in OverlappingRequests : RegisterCheck(body)
    \/ \E call \in calls : RegisterCreate(call)
    \/ \E data \in NewAccountRequests : Login(data)

SpecOverlap == Init /\ [][NextOverlap]_vars

\* what the callers of login and of the reset request are told
\* the middleware with a clock fine enough for the freshness window, and logins
\* before and after an email change
CacheRequests ==
    {[identifier |-> e, password |-> PwSecret1, rememberMe |-> FALSE] : e \in {EmailA, EmailC}}

CacheHeaders == {BearerHeader(t) : t \in OfType("access")}

NextCache ==
    \/ \E data \in CacheRequests : Login(data)
    \/ \E header \in CacheHeaders, dbUp \in BOOLEAN : Authenticate(header, dbUp)
    \/ \E status \in {"ACTIVE", "SUSPENDED"} : AdminModerate(1, status)
    \/ AdminSetEmail(1, EmailC)
    \/ Tick(CACHE_DURATION)

SpecCache == Init /\ [][NextCache]_vars

\* the middleware with accounts that disappear, and the maintenance task
NextRevocation ==
    \/ \E data \in AuthRequests : Login(data)
    \/ \E header \in CacheHeaders : Authenticate(header, TRUE)
    \/ \E status \in {"ACTIVE", "SUSPENDED", "DELETED"} : AdminModerate(1, status)
    \/ AdminDeleteUser(1)
    \/ \E overLimit \in BOOLEAN : Maintenance(overLimit)
    \/ Tick(CACHE_DURATION)
    \/ Tick(ACCESS_TOKEN_EXPIRES)

SpecRevocation == Init /\ [][NextRevocation]_vars

\* the lifetime of tokens of every purpose, with a clock that reaches each expiry
TimeToLive(type) ==
    CASE type = "access" -> ACCESS_TOKEN_EXPIRES
      [] type = "refresh" -> REFRESH_TOKEN_EXPIRES
      [] type = "verification" -> VERIFICATION_TOKEN_EXPIRES
      [] type = "reset" -> RESET_TOKEN_EXPIRES

\* a call of generateToken on its own, as the verification mail would make it
GenerateToken(userId, type) ==
    /\ userId \in DOMAIN users
    /\ CanIssue(1)
    /\ issued' = issued \cup
            {generateToken(userId, users[userId].email, type, TimeToLive(type), nextJti)}
    /\ nextJti' = nextJti + 1
    /\ UNCHANGED <<users, refreshTokens, nextId, revokedTokens, userCache, now, nodeEnv, recentHashes, accepted,
                   calls, revocations, last>>

\* the instants at which a signed token expires
ExpiryInstants == {t.exp : t \in issued}

\* the clock moves on to such an instant
Elapse(instant) ==
    /\ instant > now
    /\ now' = instant
    /\ UNCHANGED <<users, refreshTokens, issued, nextJti, nextId, revokedTokens, userCache,
                   nodeEnv, recentHashes, accepted, calls, revocations, last>>

\* the sessions and mails start in the first minute, then time passes
NextLifetime ==
    \/ now = 0 /\ \E data \in AuthRequests : Login(data)
    \/ now = 0 /\ RequestPasswordReset(EmailA)
    \/ now = 0 /\ GenerateToken(1, "verification")
    \/ \E token \in OfType("access") : Authenticate(BearerHeader(token), TRUE)
    \/ \E token \in OfType("refresh") : RefreshTokens(token)
    \/ \E token \in OfType("verification") : VerifyEmail(token)
    \/ \E token \in OfType("reset") : ResetPassword(token, PwSecret2)
    \/ \E instant \in ExpiryInstants : Elapse(instant)

SpecLifetime == Init /\ [][NextLifetime]_vars

\* failed logins on identity 1 that overlap
WrongPasswordRequests ==
    {[identifier |-> EmailA, password |-> PwSecret2, rememberMe |-> FALSE]}

NextRace ==
    \/ \E data \in WrongPasswordRequests : LoginFind(data)
    \/ \E call \in calls : LoginCount(call)
    \/ \E call \in calls : LoginWrite(call)
    \/ \E call \in calls : LoginAnswer(call)

SpecRace == Init /\ [][NextRace]_vars

\* logins on identity 1 that overlap, with the right and with a wrong password
OverlappingLogins ==
    {[identifier |-> EmailA, password |-> pw, rememberMe |-> FALSE] : pw \in {PwSecret1, PwSecret2}}

NextLogins ==
    \/ Cardinality(calls) < MaxOverlap /\ \E data \in OverlappingLogins : LoginFind(data)
    \/ \E call \in calls : LoginCount(call)
    \/ \E call \in calls : LoginWrite(call)
    \/ \E call \in calls : LoginReset(call)
    \/ \E call \in calls : LoginAnswer(call)

SpecLogins == Init /\ [][NextLogins]_vars

\* routes that also serve anonymous callers
NextOptional ==
    \/ \E data \in AuthRequests : Login(data)
    \/ \E header \in AuthHeaders, dbUp \in BOOLEAN : OptionalAuth(header, dbUp)
    \/ AdminDeleteUser(1)
    \/ Tick(ACCESS_TOKEN_EXPIRES)

SpecOptional == Init /\ [][NextOptional]_vars

\* POST /refresh, one step per await of AuthService.refreshTokens

\* tokens signed while refreshTokens calls overlap
MaxRotated == 6

PendingRefresh(cid, pc, token, tokenRecord, tokens) ==
    [op |-> "refresh", cid |-> cid, pc |-> pc, token |-> token, tokenRecord |-> tokenRecord,
     tokens |-> tokens]

\* jwt.verify, the type check and findUnique with the expiry comparison; a call
\* that fails here is answered at once
RefreshFind(token) ==
    IF /\ token # NoToken
       /\ jwtVerify(token, REFRESH_SECRET, DefaultAlgorithms, FALSE) = "ok"
       /\ ~wrongType(token, "refresh")
       /\ findRefreshToken(token) # {}
       /\ \A r \in findRefreshToken(token) : ~(r.expiresAt < now)
    THEN /\ FreeCallIds # {}
         /\ \E tokenRecord \in findRefreshToken(token) :
                calls' = calls \cup {PendingRefresh(FirstFree, "create", token, tokenRecord, NoPair)}
         /\ UNCHANGED <<users, last>>
         /\ CallUnchanged
    ELSE RefreshTokens(token)

\* generateTokenPair(tokenRecord.userId, tokenRecord.user.email): the row of the
\* new refresh token is created before the old one is deleted
RefreshCreate(call) ==
    LET userId == call.tokenRecord.userId
        email == users[userId].email
    IN  /\ call \in calls /\ call.op = "refresh" /\ call.pc = "create"
        /\ nextJti + 1 <= MaxRotated
        /\ generateTokenPair(userId, email, FALSE)
        /\ calls' = (calls \ {call}) \cup
                {[call EXCEPT !.pc = "delete", !.tokens = AuthTokens(userId, email, FALSE)]}
        /\ UNCHANGED <<users, nextId, revokedTokens, userCache, now, nodeEnv, recentHashes, accepted, revocations, last>>

\* prisma.refreshToken.delete({ where: { id: tokenRecord.id } }) rejects when the
\* row is gone; the catch block turns the rejection into the refresh failure
RefreshDelete(call) ==
    /\ call \in calls /\ call.op = "refresh" /\ call.pc = "delete"
    /\ calls' = calls \ {call}
    /\ IF call.tokenRecord \in refreshTokens
       THEN /\ refreshTokens' = refreshTokens \ {call.tokenRecord}
            /\ last' = [Success("refresh", 200, <<"Tokens", "rafraichis", "avec", "succes">>)
                            EXCEPT !.tok = call.token, !.uid = call.tokenRecord.userId,
                                   !.tokens = call.tokens]
       ELSE /\ UNCHANGED refreshTokens
            /\ last' = RefreshFailure(call.token)
    /\ UNCHANGED <<users, issued, nextJti, nextId, revokedTokens, userCache, now, nodeEnv, recentHashes, accepted,
                   revocations>>

\* one session whose refresh token is presented by overlapping calls
NextRotate ==
    \/ issued = {} /\ \E data \in AuthRequests : Login(data)
    \/ \E token \in OfType("refresh") \cup {NoToken} : RefreshFind(token)
    \/ \E call \in calls : RefreshCreate(call)
    \/ \E call \in calls : RefreshDelete(call)

SpecRotate == Init /\ [][NextRotate]_vars

\* detectDuplicateContent(), the middleware instance of one route

\* the map after the loop that deletes the entries older than WINDOW_TIME
cleanedHashes ==
    [hash \in {h \in DOMAIN recentHashes : ~(now - recentHashes[h].timestamp > WINDOW_TIME)}
        |-> recentHashes[hash]]

\* the map the middleware leaves for a request with this hash.  existing is read
\* before the loop deletes old entries: when the loop deleted it, the test and
\* the increment act on an object that is no longer in the map.
detectDuplicateContent(contentHash) ==
    IF contentHash \in DOMAIN recentHashes THEN
        LET existing == recentHashes[contentHash]
        IN  IF existing.count >= MAX_DUPLICATES THEN cleanedHashes
            ELSE IF contentHash \in DOMAIN cleanedHashes
                 THEN [cleanedHashes EXCEPT ![contentHash] =
                            [timestamp |-> now, count |-> existing.count + 1]]
                 ELSE cleanedHashes
    ELSE WithKey(cleanedHashes, contentHash, [timestamp |-> now, count |-> 1])

\* the request is answered 429 and does not reach the handler
duplicateRejected(contentHash) ==
    /\ contentHash \in DOMAIN recentHashes
    /\ recentHashes[contentHash].count >= MAX_DUPLICATES

\* a POST request reaches the middleware
Submit(contentHash) ==
    /\ IF contentHash = NoHash THEN
            /\ last' = [Success("submit", 200, <<>>) EXCEPT !.next = TRUE]
            /\ UNCHANGED <<recentHashes, accepted>>
       ELSE IF duplicateRejected(contentHash) THEN
            /\ last' = [Failure("submit", 429, <<"Contenu", "duplique", "detecte">>,
                                "DUPLICATE_CONTENT") EXCEPT !.contentHash = contentHash]
            /\ recentHashes' = detectDuplicateContent(contentHash)
            /\ UNCHANGED accepted
       ELSE /\ accepted[contentHash].count < MaxSubmissions
            /\ last' = [Success("submit", 200, <<>>) EXCEPT !.next = TRUE,
                                                         !.contentHash = contentHash]
            /\ recentHashes' = detectDuplicateContent(contentHash)
            /\ accepted' = [accepted EXCEPT ![contentHash] =
                                [count |-> @.count + 1, latest |-> now]]
    /\ UNCHANGED <<users, refreshTokens, issued, nextJti, nextId, revokedTokens, userCache, now,
                   nodeEnv, calls, revocations>>

\* identical and different bodies submitted over time
NextDuplicates ==
    \/ \E contentHash \in ContentHashes \cup {NoHash} : Submit(contentHash)
    \/ \E d \in {SubmissionGap, WINDOW_TIME + 1} : Tick(d)

SpecDuplicates == Init /\ [][NextDuplicates]_vars

\* accounts that the administrative actor suspends or deletes while sessions
\* and verification mails are out
NextStatus ==
    \/ \E data \in SessionRequests : Login(data)
    \/ \E token \in OfType("refresh") : RefreshTokens(token)
    \/ \E token \in VerificationTokens : VerifyEmail(token)
    \/ \E id \in DOMAIN users, status \in {"SUSPENDED", "DELETED"} : AdminModerate(id, status)

SpecStatus == Init /\ [][NextStatus]_vars

ResponseRequests ==
    [identifier : {EmailA, EmailD}, password : {PwSecret1, PwSecret2}, rememberMe : {FALSE}]

NextResponses ==
    \/ \E data \in ResponseRequests : Login(data)
    \/ \E email \in {EmailA, EmailD, EmailBad} : RequestPasswordReset(email)
    \/ \E status \in UserStatus : AdminSetStatus(1, status)
    \/ Tick(LOCKOUT_TIME)

SpecResponses == Init /\ [][NextResponses]_vars

----------------------------------------------------------------------------
(* Claims about sessions, checked under Spec *)

StoredTokens == {r.token : r \in refreshTokens}

\* the step is a refreshTokens call that returned a new pair
RefreshSucceeds == last'.op = "refresh" /\ last'.ok /\ nextJti' # nextJti

\* C1: refresh-token rotation.  A refreshTokens call succeeds only for a token
\* that has a stored record, the successful call deletes that record, and a token
\* without a record never gets one back: so a refresh token yields a new pair at
\* most once, and every later call with it fails.
C1_RefreshRotation ==
    [][/\ RefreshSucceeds =>
            /\ last'.tok \in StoredTokens
            /\ last'.tok \notin StoredTokens'
            /\ last'.tokens.refreshToken \in StoredTokens'
       /\ \A t \in issued : t \notin StoredTokens => t \notin StoredTokens']_vars

\* a refresh has succeeded and its token is spent
C1_Witness ==
    /\ last.op = "refresh" /\ last.ok
    /\ last.tok.type = "refresh" /\ last.tok \in issued /\ last.tok \notin StoredTokens
    /\ last.tokens.refreshToken \in StoredTokens

\* C5: after a logout request with allDevices = true, no refresh-token record of
\* the calling identity remains.
C5_LogoutAllDevices ==
    (last.op = "logout" /\ last.ok /\ last.allDevices)
        => \A r \in refreshTokens : r.userId # last.uid


----------------------------------------------------------------------------
(* Claims about the account guard, checked under SpecGuard *)

Locked(u) == users[u].blockedUntil # NULL /\ users[u].blockedUntil > now

\* the step is a login call that found identity u
LoginStep(u) ==
    /\ last'.op = "login" /\ last'.uid = u
    /\ (last' # last \/ users' # users \/ nextJti' # nextJti)

LockoutError(outcome) == ~outcome.ok /\ contains(outcome.msg, <<"temporairement", "bloque">>)

\* C2: lockout boundary.  A failed password check that brings the counter to
\* MAX_LOGIN_ATTEMPTS sets lockout-until to now + LOCKOUT_TIME and one that leaves
\* it below does not lock; a login while lockout-until is in the future fails with
\* the lockout error whatever the password; once lockout-until has elapsed a login
\* with the right password on an active identity succeeds.
C2_LockoutBoundary ==
    [][\A u \in DOMAIN users :
        LoginStep(u) =>
            /\ (~Locked(u) /\ ~last'.ok /\ last'.compared /\ users[u].status = "ACTIVE") =>
                    /\ users'[u].loginAttempts = users[u].loginAttempts + 1
                    /\ (users'[u].loginAttempts = MAX_LOGIN_ATTEMPTS
                            => users'[u].blockedUntil = now + LOCKOUT_TIME)
                    /\ (users'[u].loginAttempts < MAX_LOGIN_ATTEMPTS
                            => users'[u].blockedUntil = users[u].blockedUntil)
            /\ Locked(u) => LockoutError(last')
            /\ (~Locked(u) /\ users[u].status = "ACTIVE"
                    /\ bcryptCompare(last'.password, users[u].password)) => last'.ok]_vars

\* a login with the right password succeeded on an identity whose lockout had elapsed
C2_Witness ==
    /\ last.op = "login" /\ last.ok
    /\ last.user.loginAttempts = MAX_LOGIN_ATTEMPTS
    /\ last.user.blockedUntil # NULL /\ last.user.blockedUntil <= now

\* C6: after resetPassword succeeds for identity u, the stored hash is the hash
\* of the new password, the counter is 0, lockout-until is unset and u has no
\* refresh-token record left.
C6_ResetPassword ==
    (last.op = "resetPassword" /\ last.ok) =>
        /\ bcryptCompare(last.password, users[last.uid].password)
        /\ users[last.uid].loginAttempts = 0
        /\ users[last.uid].blockedUntil = NULL
        /\ \A r \in refreshTokens : r.userId # last.uid

\* a reset succeeded for an identity that had a session
C6_Witness ==
    /\ last.op = "resetPassword" /\ last.ok
    /\ \E t \in issued : t.type = "refresh" /\ t.userId = last.uid /\ t.jti < last.tok.jti

\* C7: when a login succeeds, the identity's counter is 0 and its lockout-until
\* is unset, whatever they were before.
C7_LoginResetsGuard ==
    [][\A u \in DOMAIN users :
        (LoginStep(u) /\ last'.ok) =>
            users'[u].loginAttempts = 0 /\ users'[u].blockedUntil = NULL]_vars

\* a login succeeded on an identity whose counter was not 0
C7_Witness ==
    /\ last.op = "login" /\ last.ok /\ last.user.loginAttempts > 0
    /\ users[last.uid].loginAttempts = 0

\* C8: a login while lockout-until is in the future changes no identity record
\* and does not compare the password.
C8_LockedLoginFrame ==
    [][\A u \in DOMAIN users :
        (LoginStep(u) /\ Locked(u)) => (users' = users /\ ~last'.compared)]_vars

\* a login was rejected by the lockout
C8_Witness ==
    /\ last.op = "login" /\ LockoutError(last)
    /\ Locked(last.uid) /\ ~last.compared

\* C9: in every state, a counter of 0 implies that lockout-until is unset.
C9_ZeroCounterUnlocked ==
    \A u \in DOMAIN users : users[u].loginAttempts = 0 => users[u].blockedUntil = NULL

\* a counter is back to 0 after a lockout
C9_Witness ==
    /\ last.ok /\ last.op \in {"login", "resetPassword"}
    /\ users[last.uid].loginAttempts = 0
    /\ \E t \in issued : t.type = "reset" /\ t.userId = last.uid


----------------------------------------------------------------------------
(* Claims about the middleware, checked under SpecAuth *)

\* the step is a request that went through authenticateToken
AuthStep ==
    /\ last'.op = "protected"
    /\ now' = now /\ users' = users /\ nextJti' = nextJti

FreshEntry(userId) ==
    /\ userId \in DOMAIN userCache
    /\ now - userCache[userId].timestamp <= CACHE_DURATION

\* the identity the middleware works with: the cached one while fresh, else the stored one
Resolved(userId) ==
    IF FreshEntry(userId) THEN userCache[userId].user ELSE UserSnapshot(userId)

\* C3: authenticateToken fails closed.  It calls next(), with the identity
\* attached, only if a bearer token is present, is not revoked, verifies
\* (signature, algorithm, expiry, issuer, audience), has purpose access, its
\* identity resolves from a fresh cache entry or from the store, the resolved
\* status is neither suspended nor deleted and the resolved email is the token's;
\* otherwise it answers 401, 403 or 500.
C3_FailsClosed ==
    [][AuthStep =>
        /\ last'.next =>
            /\ last'.scheme = "Bearer" /\ last'.tok # NoToken
            /\ last'.tok \notin revokedTokens
            /\ last'.tok.secret = SECRET /\ last'.tok.alg = ALGORITHM
            /\ now < last'.tok.exp
            /\ last'.tok.iss = ISSUER /\ last'.tok.aud = AUDIENCE
            /\ last'.tok.type = "access"
            /\ (FreshEntry(last'.tok.userId) \/ last'.tok.userId \in DOMAIN users)
            /\ Resolved(last'.tok.userId).status \notin {"SUSPENDED", "DELETED"}
            /\ Resolved(last'.tok.userId).email = last'.tok.email
            /\ last'.user = Resolved(last'.tok.userId)
        /\ ~last'.next => (last'.http \in {401, 403, 500} /\ ~last'.ok)]_vars

\* a request passed the middleware on a fresh cache entry
C3_Witness ==
    /\ last.op = "protected" /\ last.next
    /\ last.tok \in OfType("access") /\ last.user.id = last.tok.userId
    /\ FreshEntry(last.uid)
    /\ last.uid \in DOMAIN users /\ users[last.uid].status = "SUSPENDED"

----------------------------------------------------------------------------
(* Claims about the purpose of tokens, checked under SpecTokens *)

Purpose(op) ==
    CASE op = "protected" -> "access"
      [] op = "refresh" -> "refresh"
      [] op = "verifyEmail" -> "verification"
      [] op = "resetPassword" -> "reset"

Consumers == {"protected", "refresh", "verifyEmail", "resetPassword"}

\* the step is a request to an operation that consumes a token
ConsumerStep == last'.op \in Consumers /\ now' = now /\ (last' # last \/ users' # users)

\* C4: purpose separation.  authenticateToken, refreshTokens, verifyEmail and
\* resetPassword succeed only with a token of their own purpose; a token of
\* another purpose is rejected and leaves the identity records and the
\* refresh-token records as they were.
C4_PurposeSeparation ==
    [][ConsumerStep =>
        /\ last'.ok => last'.tok.type = Purpose(last'.op)
        /\ last'.tok.type # Purpose(last'.op) =>
            /\ ~last'.ok
            /\ users' = users
            /\ refreshTokens' = refreshTokens]_vars

\* resetPassword rejected an access token that was validly signed and not expired
C4_Witness ==
    /\ last.op = "resetPassword" /\ ~last.ok
    /\ last.tok.type = "access"
    /\ jwtVerify(last.tok, SECRET, {ALGORITHM}, TRUE) = "ok"

----------------------------------------------------------------------------
(* Claims about registration, checked under SpecRegister *)

\* C10: a successful registration returns an identity with status
\* pending-verification and without the password, and a token of purpose
\* verification has been signed for the new identity.
C10_RegisterIssuesVerification ==
    (last.op = "register" /\ last.ok) =>
        /\ last.user.status = "PENDING_VERIFICATION"
        /\ "password" \notin DOMAIN last.user
        /\ \E t \in issued : t.type = "verification" /\ t.userId = last.uid


\* the step is a POST /register
RegisterStep == last'.op = "register" /\ now' = now /\ last' # last

EmailInUse(email) == \E id \in DOMAIN users : users[id].email = toLowerCase(trim(email))

PhoneInUse(phone) == \E id \in DOMAIN users : users[id].phone = normalizePhoneNumber(trim(phone))

\* the body passes the three validations in front of the existence check
ValidBody(body) ==
    /\ validateRegister(sanitizeRegister(body))
    /\ userSchemaSafeParse(sanitizeRegister(body))
    /\ validateRegistrationData(sanitizeRegister(body)) = <<"ok">>

\* C11: a valid registration whose email is in use and whose phone is not
\* fails with the duplicate error that names the email, one whose phone is in
\* use and whose email is not fails with the one that names the phone, and a
\* registration that fails creates no identity record, no refresh-token record
\* and no token.
C11_DuplicateField ==
    [][RegisterStep =>
        /\ (ValidBody(last'.body) /\ EmailInUse(last'.body.email) /\ ~PhoneInUse(last'.body.phone))
                => (~last'.ok /\ last'.http = 409 /\ last'.msg = msgEmailExists)
        /\ (ValidBody(last'.body) /\ PhoneInUse(last'.body.phone) /\ ~EmailInUse(last'.body.email))
                => (~last'.ok /\ last'.http = 409 /\ last'.msg = msgPhoneExists)
        /\ ~last'.ok => (users' = users /\ refreshTokens' = refreshTokens /\ issued' = issued)]_vars

\* a registration was refused for its email, sent in upper case with an unused phone
C11_Witness ==
    /\ last.op = "register" /\ ~last.ok /\ last.msg = msgEmailExists
    /\ last.body.email = EmailAUpper /\ ~PhoneInUse(last.body.phone)


----------------------------------------------------------------------------
(* Claims about overlapping registrations, checked under SpecOverlap *)

\* C12: whatever the interleaving of register calls, no two identity records
\* share an email and no two share a phone.
C12_UniqueEmailPhone ==
    \A i, j \in DOMAIN users :
        i # j => (users[i].email # users[j].email /\ users[i].phone # users[j].phone)

\* of two registrations that both passed the existence check, the second insert was refused
C12_Witness ==
    /\ last.op = "register" /\ ~last.ok /\ last.msg = msgUniqueConstraint
    /\ PhoneInUse(last.body.phone) /\ ~EmailInUse(last.body.email)
    /\ Cardinality(DOMAIN users) = 3


----------------------------------------------------------------------------
(* Claims about what a caller is told, checked under SpecResponses *)

\* what the caller sees of an outcome
Response(outcome) == <<outcome.ok, outcome.http, outcome.msg, outcome.code>>

\* the step is a POST /login
LoginCall ==
    /\ last'.op = "login" /\ now' = now
    /\ \A u \in DOMAIN users : users'[u].status = users[u].status
    /\ (last' # last \/ users' # users \/ nextJti' # nextJti)

\* the step is a POST /forgot-password
ResetRequestCall == last'.op = "requestPasswordReset" /\ now' = now /\ users' = users

UnknownIdentifier(identifier) == findUserByEmailOrPhone(identifier, identifier) = {}

BadCredentials == <<FALSE, 401, msgIncorrect, "LOGIN_ERROR">>

\* C13: a login with an identifier that matches no identity and a login with
\* a wrong password on a registered identity that is not locked get the same
\* message, code and HTTP status.
C13_NoEnumerationOnLogin ==
    [][LoginCall =>
        /\ UnknownIdentifier(last'.identifier) => Response(last') = BadCredentials
        /\ \A u \in DOMAIN users :
            (last'.uid = u /\ ~Locked(u) /\ ~bcryptCompare(last'.password, users[u].password))
                => Response(last') = BadCredentials]_vars

\* both kinds of failure have been answered
C13_Witness ==
    /\ last.op = "login" /\ Response(last) = BadCredentials
    /\ UnknownIdentifier(last.identifier)
    /\ users[1].loginAttempts > 0

\* C14: a login rejected because the identity is locked gets the response of
\* a bad-credentials failure.
C14_LockoutIsGeneric ==
    [][LoginCall =>
        \A u \in DOMAIN users :
            (last'.uid = u /\ Locked(u)) => Response(last') = BadCredentials]_vars

\* C14, as the code has it: a login rejected because the identity is locked is
\* answered 403 with the lockout message, which carries the minutes that remain;
\* message and status differ from those of a bad-credentials failure.
C14_LockoutIsDistinct ==
    [][LoginCall =>
        \A u \in DOMAIN users :
            (last'.uid = u /\ Locked(u)) =>
                /\ ~last'.ok /\ last'.http = 403
                /\ last'.msg = lockoutMessage(u)
                /\ users[u].blockedUntil - now > 0
                /\ last'.msg # msgIncorrect
                /\ Response(last') # BadCredentials]_vars

\* a locked identity was told so, its password being the right one
C14_Witness ==
    /\ last.op = "login" /\ last.http = 403 /\ LockoutError(last)
    /\ last.uid = 1 /\ bcryptCompare(last.password, users[1].password)

\* C15: the reset request is answered with the same success response whether
\* or not an identity has the email; a reset token is signed only when one has.
C15_NoEnumerationOnReset ==
    [][(ResetRequestCall /\ emailRegexTest(toLowerCase(trim(last'.identifier)))) =>
        /\ Response(last') = <<TRUE, 200, msgResetRequested, "OK">>
        /\ (findUserByEmail(last'.identifier) = {}) <=> (issued' = issued)]_vars

\* a reset was requested for an email nobody has, after one for a registered email
C15_Witness ==
    /\ last.op = "requestPasswordReset" /\ last.ok
    /\ findUserByEmail(last.identifier) = {}
    /\ OfType("reset") # {}

\* C19: a login with the right password on an identity that is suspended or
\* deleted issues no token, creates no refresh-token record and is answered
\* 403 with a message of its own for each of the two statuses.
C19_BlockedStatus ==
    [][LoginCall =>
        \A u \in DOMAIN users :
            (/\ last'.uid = u /\ ~Locked(u)
             /\ bcryptCompare(last'.password, users[u].password)
             /\ users[u].status \in {"SUSPENDED", "DELETED"})
                => /\ ~last'.ok
                   /\ issued' = issued /\ refreshTokens' = refreshTokens
                   /\ last'.http = 403
                   /\ last'.msg = (IF users[u].status = "SUSPENDED" THEN msgSuspended ELSE msgDeleted)
                   /\ msgSuspended # msgDeleted]_vars

----------------------------------------------------------------------------
(* Claims about the identity cache and the revocation set of authenticateToken *)

\* the codes authenticateToken answers before it looks for the identity
EarlyCodes ==
    {"MISSING_TOKEN", "REVOKED_TOKEN", "EXPIRED_TOKEN", "MALFORMED_TOKEN", "WRONG_TOKEN_TYPE"}

\* a request whose token got as far as the identity lookup
LookupStep == AuthStep /\ last'.code \notin EarlyCodes

Reloaded(userId) == [user |-> UserSnapshot(userId), timestamp |-> now]

\* C16: authenticateToken never trusts a cache entry older than CACHE_DURATION.
\* When the entry of the token's identity is missing or older than that, the
\* answer depends on the store alone: 500 when the store fails (the cache is left
\* as it was), not-found when the row is gone, and otherwise the status and email
\* checks are made on the snapshot just read; the entry left in the cache, if one
\* is left, is that snapshot with the current time, never the old entry.
C16_CacheFreshness ==
    [][LookupStep /\ ~FreshEntry(last'.tok.userId) =>
        LET userId == last'.tok.userId
        IN  IF last'.code = "DB_ERROR" THEN userCache' = userCache
            ELSE IF userId \notin DOMAIN users THEN
                last'.code = "USER_NOT_FOUND" /\ userId \notin DOMAIN userCache'
            ELSE
                /\ last'.next <=>
                        /\ users[userId].status \notin {"SUSPENDED", "DELETED"}
                        /\ users[userId].email = last'.tok.email
                /\ last'.next => last'.user = UserSnapshot(userId)
                /\ last'.code = "ACCOUNT_SUSPENDED" <=> users[userId].status = "SUSPENDED"
                /\ userId \in DOMAIN userCache' => userCache'[userId] = Reloaded(userId)
                /\ (last'.next \/ last'.code = "ACCOUNT_SUSPENDED") =>
                        userId \in DOMAIN userCache']_vars

\* past the first window, a token issued after the email change passed on the
\* snapshot read from the store at the current time, which is the entry now cached
C16_Witness ==
    /\ last.op = "protected" /\ last.next
    /\ now > CACHE_DURATION
    /\ last.uid \in DOMAIN userCache
    /\ userCache[last.uid] = [user |-> last.user, timestamp |-> now]
    /\ last.uid \in DOMAIN users
    /\ last.user.email = EmailC /\ last.tok.email = EmailC
    /\ \E t \in OfType("access") : t.email = EmailA /\ t.iat = 0

\* a step of the maintenance task: nothing is answered, entries only go away
MaintenanceStep ==
    /\ last' = last /\ revocations' = revocations
    /\ revokedTokens' \subseteq revokedTokens
    /\ \A k \in DOMAIN userCache' : k \in DOMAIN userCache /\ userCache'[k] = userCache[k]

\* a request to a protected route
ProtectedStep == AuthStep /\ ~MaintenanceStep

DefensiveCodes == {"USER_NOT_FOUND", "ACCOUNT_DELETED"}

\* the tokens authenticateToken revoked because the identity was gone or deleted
DefensivelyRevoked == {r.token : r \in {x \in revocations : x.code \in DefensiveCodes}}

C18_StaleClaimCheck ==
    [][LookupStep /\ last'.tok.userId \in DOMAIN users =>
        LET current == users[last'.tok.userId].email
        IN  /\ last'.code = "TOKEN_MISMATCH" =>
                /\ last'.http = 401 /\ last'.tok \in revokedTokens'
                /\ last'.tok.email # current
            /\ last'.next => last'.tok.email = current
            /\ (last'.tok.email = current /\ users[last'.tok.userId].status # "DELETED") =>
                    (last'.tok \in revokedTokens' => last'.tok \in revokedTokens)]_vars

----------------------------------------------------------------------------
(* Claim about the frame of logout *)

LogoutStep == last'.op = "logout" /\ now' = now

----------------------------------------------------------------------------
(* Claim about the lifetime of tokens, checked under SpecLifetime *)

\* the answer says that the token has expired
ExpiredKind(outcome) ==
    /\ ~outcome.ok
    /\ \/ outcome.code = "EXPIRED_TOKEN"
       \/ contains(outcome.msg, <<"expire">>)
       \/ contains(outcome.detail, <<"expire">>)

\* a token signed here was presented to the operation that consumes its purpose
RoundTripStep ==
    /\ ConsumerStep
    /\ last'.tok \in issued
    /\ last'.tok.type = Purpose(last'.op)

\* C21: for each purpose, a token signed by generateToken and presented to the
\* operation of its purpose is accepted only before its time to live has
\* elapsed and then resolves to the identity and purpose it was signed for; once
\* the time to live has elapsed the operation fails and the failure says that
\* the token has expired.
C21_TokenRoundTrip ==
    [][RoundTripStep =>
        /\ last'.ok =>
            /\ now < last'.tok.iat + TimeToLive(last'.tok.type)
            /\ last'.uid = last'.tok.userId
            /\ last'.tok.type = Purpose(last'.op)
        /\ now >= last'.tok.iat + TimeToLive(last'.tok.type) => ExpiredKind(last')]_vars

----------------------------------------------------------------------------
(* Claims about login calls that overlap *)

\* the failed password checks on identity u whose answer has not been sent yet
FailedUnanswered(u) ==
    {c \in calls : c.op = "login" /\ c.uid = u /\ c.pc = "answer" /\ c.msg = msgIncorrect}

\* C22: when failed logins on the same identity overlap, the counter falls short
\* of the number of failed password checks by at most one.  With no successful
\* login and no reset, the counter is then at least the number of failed checks
\* that have been recorded and not answered yet, less one.
C22_UnderCountByOne ==
    \A u \in DOMAIN users :
        Cardinality(FailedUnanswered(u)) - users[u].loginAttempts <= 1

\* C27: in every state, under any interleaving of login calls on the same
\* identity, an identity whose lockout-until is set has a counter of at least
\* MAX_LOGIN_ATTEMPTS.
C27_LockedMeansThreshold ==
    \A u \in DOMAIN users :
        users[u].blockedUntil # NULL => users[u].loginAttempts >= MAX_LOGIN_ATTEMPTS

----------------------------------------------------------------------------
(* Claim about optionalAuth, checked under SpecOptional *)

OptionalStep ==
    /\ last'.op = "optional"
    /\ now' = now /\ users' = users /\ nextJti' = nextJti

\* C23: on a route behind optionalAuth every request reaches the handler: one
\* without a token as anonymous, one whose token passes authenticateToken with
\* its identity attached, and one whose token fails (invalid, expired, revoked,
\* wrong purpose, unknown identity) without a user attached and without an
\* error response.
C23_OptionalAuthContinues ==
    [][OptionalStep =>
        /\ last'.next /\ last'.ok
        /\ last'.http \notin {401, 403, 500}
        /\ (last'.tok = NoToken \/ ~authenticateToken(BearerHeader(last'.tok), TRUE).next)
                => last'.user = NoUser]_vars

----------------------------------------------------------------------------
(* Claims about suspended and deleted accounts, checked under SpecStatus *)

Blocked(u) == users[u].status \in {"SUSPENDED", "DELETED"}

\* the step is a login or a refreshTokens call that was answered
SessionStep == last'.op \in {"login", "refresh"} /\ (last' # last \/ nextJti' # nextJti)

\* C24: no token pair is issued for a suspended or deleted identity.  A login or
\* a refreshTokens call that returns a pair is for an identity that is neither,
\* and a call for a suspended or deleted identity signs no token and creates no
\* refresh-token record.
C24_NoPairWhenBlocked ==
    [][SessionStep =>
        /\ (last'.ok /\ nextJti' # nextJti) => ~Blocked(last'.uid)
        /\ \A r \in refreshTokens' \ refreshTokens : ~Blocked(r.userId)
        /\ \A t \in issued' \ issued : ~Blocked(t.userId)]_vars

\* C25: verifyEmail moves an identity to active only from pending-verification:
\* a verifyEmail call never turns the status of a suspended or deleted identity
\* into active.
C25_VerifyOnlyFromPending ==
    [][last'.op = "verifyEmail" =>
        \A u \in DOMAIN users : Blocked(u) => users'[u].status # "ACTIVE"]_vars

----------------------------------------------------------------------------
(* Claim about overlapping refreshTokens calls, checked under SpecRotate *)

\* the calls that the step answers
Answered == {call \in calls : \A other \in calls' : other.cid # call.cid}

\* the step answers a refreshTokens call with a failure
RefreshFails ==
    /\ last'.op = "refresh" /\ ~last'.ok
    /\ (Answered # {} \/ (calls' = calls /\ last' # last))

\* C26: a refreshTokens call that fails adds no row to the persisted
\* refresh-token records: when it is answered, the table holds no row for a
\* token that the call created and returned to no caller.
C26_FailedRefreshLeavesNoRow ==
    [][RefreshFails =>
        /\ refreshTokens' = refreshTokens
        /\ \A call \in Answered, r \in refreshTokens' : r.token # call.tokens.refreshToken]_vars

----------------------------------------------------------------------------
(* Claim about the run of failures behind a lockout, checked under SpecGuard *)

\* the lockout of u has run out, and no password check has replaced or cleared
\* its instant since
LockoutElapsed(u) == users[u].blockedUntil # NULL /\ ~(users[u].blockedUntil > now)

\* C28: each lockout requires a fresh run of failures: MAX_LOGIN_ATTEMPTS being
\* more than one, no single request locks again an identity whose lockout
\* window has elapsed.
C28_FreshRunPerLockout ==
    [][\A u \in DOMAIN users :
        (LockoutElapsed(u) /\ MAX_LOGIN_ATTEMPTS > 1) =>
            ~(users'[u].blockedUntil # NULL /\ users'[u].blockedUntil > now')]_vars

----------------------------------------------------------------------------
(* Claim about the slug loop of register, checked under SpecRegister *)

\* C29: register terminates for every valid input and every state of the
\* identity store: no register request is left without an answer because the
\* loop of generateUniqueSlug, whose test slugExists(slug) depends only on the
\* part of the slug before the first "-", keeps running.
C29_RegisterTerminates == last.code # "NO_RESPONSE"

----------------------------------------------------------------------------
(* Claim about detectDuplicateContent, checked under SpecDuplicates *)

\* the step is a request with a content hash passing through the middleware
SubmitStep ==
    /\ last'.op = "submit" /\ last'.contentHash # NoHash
    /\ (last' # last \/ recentHashes' # recentHashes \/ accepted' # accepted)

\* more than WINDOW_TIME has passed since the last accepted submission of hash
WindowOver(hash) == accepted[hash].count > 0 /\ now - accepted[hash].latest > WINDOW_TIME

\* C30: detectDuplicateContent answers 429 only if MAX_DUPLICATES submissions
\* with that hash were accepted and the latest of them lies within the last 15
\* minutes; once more than 15 minutes have passed since the last accepted
\* submission of a hash, the next one is accepted and counted as the first of a
\* new window.
C30_DuplicateWindow ==
    [][SubmitStep =>
        LET hash == last'.contentHash
        IN  /\ last'.http = 429 =>
                    /\ accepted[hash].count >= MAX_DUPLICATES
                    /\ ~WindowOver(hash)
            /\ WindowOver(hash) =>
                    /\ last'.next
                    /\ hash \in DOMAIN recentHashes'
                    /\ recentHashes'[hash] = [timestamp |-> now, count |-> 1]]_vars

====
